---- MODULE Spec2Model ----
(***************************************************************************)
(* CHIP-8 interpreter core (chip8_core/src/lib.rs).                        *)
(*                                                                         *)
(* The machine is the struct Chip8; every method of the impl is an         *)
(* operator from a machine record (self) to the machine record it leaves   *)
(* behind.  A Rust panic (index out of bounds, checked arithmetic          *)
(* overflow, unimplemented!) is recorded in the field "panic": the call    *)
(* stops at that point and keeps the writes it made before.                *)
(* Arithmetic overflow of a plain +,- is build dependent (panic when       *)
(* overflow checks are on, wrap-around otherwise); the methods take the    *)
(* build's setting as the parameter oc and the actions choose it freely.   *)
(***************************************************************************)
EXTENDS Integers, Naturals, Sequences, FiniteSets, TLC

MEM_SIZE == 4096
V_REG_SIZE == 16
STACK_SIZE == 16
KEYPAD_SIZE == 16
START_ADDR == 512
FONTSET_SIZE == 80
SCREEN_WIDTH == 64
SCREEN_HEIGHT == 32

FONTSET ==
  << 240, 144, 144, 144, 240,
      32,  96,  32,  32, 112,
     240,  16, 240, 128, 240,
     240,  16, 240,  16, 240,
     144, 144, 240,  16,  16,
     240, 128, 240,  16, 240,
     240, 128, 240, 144, 240,
     240,  16,  32,  64,  64,
     240, 144, 240, 144, 240,
     240, 144, 240,  16, 240,
     240, 144, 240, 144, 144,
     224, 144, 224, 144, 224,
     240, 128, 128, 128, 240,
     224, 144, 144, 144, 224,
     240, 128, 240, 128, 240,
     240, 128, 240, 128, 128 >>

U8 == 256
U16 == 65536

\* ---------------------------------------------------------------------
\* Bit operations on unsigned integers (&, |, ^, >>, << of the source).
RECURSIVE BitAnd(_, _)
BitAnd(a, b) ==
  IF a = 0 \/ b = 0 THEN 0
  ELSE (a % 2) * (b % 2) + 2 * BitAnd(a \div 2, b \div 2)

RECURSIVE BitOr(_, _)
BitOr(a, b) ==
  IF a = 0 THEN b
  ELSE IF b = 0 THEN a
  ELSE (IF a % 2 = 1 \/ b % 2 = 1 THEN 1 ELSE 0) + 2 * BitOr(a \div 2, b \div 2)

RECURSIVE BitXor(_, _)
BitXor(a, b) ==
  IF a = 0 THEN b
  ELSE IF b = 0 THEN a
  ELSE ((a + b) % 2) + 2 * BitXor(a \div 2, b \div 2)

RECURSIVE Pow2(_)
Pow2(n) == IF n = 0 THEN 1 ELSE 2 * Pow2(n - 1)

Shr(a, n) == a \div Pow2(n)

\* a << n on a value of the given width: the bits shifted out are dropped
Shl(a, n, width) == (a * Pow2(n)) % width

\* ---------------------------------------------------------------------
\* State.
VARIABLES
  c8,     \* the machine (struct Chip8)
  call,   \* the last call made on the machine, its arguments and result
  pre,    \* the machine as it was before that call
  call2,  \* the call made before the last one
  pre2,   \* the machine as it was before call2
  burst   \* the run of push and pop calls in progress (see Push, Pop)

vars == <<c8, call, pre, call2, pre2, burst>>

Panic(self) == [self EXCEPT !.panic = TRUE]

new ==
  [ pc     |-> START_ADDR,
    ram    |-> [a \in 0..(MEM_SIZE - 1) |->
                  IF a < FONTSET_SIZE THEN FONTSET[a + 1] ELSE 0],
    screen |-> [p \in 0..(SCREEN_WIDTH * SCREEN_HEIGHT - 1) |-> FALSE],
    v_reg  |-> [r \in 0..(V_REG_SIZE - 1) |-> 0],
    i_reg  |-> 0,
    sp     |-> 0,
    stack  |-> [s \in 0..(STACK_SIZE - 1) |-> 0],
    dt     |-> 0,
    st     |-> 0,
    keys   |-> [k \in 0..(KEYPAD_SIZE - 1) |-> FALSE],
    panic  |-> FALSE ]

\* push: stack[sp] = val (index checked), then sp += 1
push(self, val) ==
  IF self.sp >= STACK_SIZE THEN Panic(self)
  ELSE [self EXCEPT !.stack[self.sp] = val, !.sp = self.sp + 1]

\* pop reading the entry before it lowers sp
pop_ReadFirst(self, oc) ==
  IF self.sp = 0
  THEN IF oc THEN [c |-> Panic(self), ret |-> 0]
       ELSE [c |-> Panic([self EXCEPT !.sp = U16 - 1]), ret |-> 0]
  ELSE IF self.sp >= STACK_SIZE
       THEN [c |-> Panic(self), ret |-> 0]
       ELSE [c |-> [self EXCEPT !.sp = self.sp - 1], ret |-> self.stack[self.sp]]

\* pop: sp -= 1 (u16; at 0 this overflows), then read stack[sp] (index checked)
pop(self, oc) ==
  IF self.sp = 0
  THEN IF oc THEN [c |-> Panic(self), ret |-> 0]
       ELSE [c |-> Panic([self EXCEPT !.sp = U16 - 1]), ret |-> 0]
  ELSE LET nsp == self.sp - 1 IN
       IF nsp >= STACK_SIZE
       THEN [c |-> Panic([self EXCEPT !.sp = nsp]), ret |-> 0]
       ELSE [c |-> [self EXCEPT !.sp = nsp], ret |-> self.stack[nsp]]

\* reset clearing the memory without copying the font back
reset_NoFont(self) ==
  [self EXCEPT
     !.pc = START_ADDR,
     !.ram = [a \in 0..(MEM_SIZE - 1) |-> 0],
     !.screen = [p \in 0..(SCREEN_WIDTH * SCREEN_HEIGHT - 1) |-> FALSE],
     !.v_reg = [r \in 0..(V_REG_SIZE - 1) |-> 0],
     !.i_reg = 0,
     !.sp = 0,
     !.stack = [s \in 0..(STACK_SIZE - 1) |-> 0],
     !.keys = [k \in 0..(KEYPAD_SIZE - 1) |-> FALSE],
     !.dt = 0,
     !.st = 0]

reset(self) ==
  [self EXCEPT
     !.pc = START_ADDR,
     !.ram = [a \in 0..(MEM_SIZE - 1) |->
                IF a < FONTSET_SIZE THEN FONTSET[a + 1] ELSE 0],
     !.screen = [p \in 0..(SCREEN_WIDTH * SCREEN_HEIGHT - 1) |-> FALSE],
     !.v_reg = [r \in 0..(V_REG_SIZE - 1) |-> 0],
     !.i_reg = 0,
     !.sp = 0,
     !.stack = [s \in 0..(STACK_SIZE - 1) |-> 0],
     !.keys = [k \in 0..(KEYPAD_SIZE - 1) |-> FALSE],
     !.dt = 0,
     !.st = 0]

\* fetch: big-endian opcode at ram[pc], ram[pc + 1]; pc += 2
fetch(self, oc) ==
  IF self.pc >= MEM_SIZE THEN [c |-> Panic(self), op |-> 0]
  ELSE IF self.pc + 1 >= MEM_SIZE THEN [c |-> Panic(self), op |-> 0]
  ELSE LET higher_byte == self.ram[self.pc]
           lower_byte == self.ram[self.pc + 1]
           op == BitOr(Shl(higher_byte, 8, U16), lower_byte)
       IN [c |-> [self EXCEPT !.pc = self.pc + 2], op |-> op]

\* tick_timers subtracting without the tests for 0 (wrapping)
tick_timers_Unguarded(self) ==
  [self EXCEPT !.dt = (self.dt - 1) % U8, !.st = (self.st - 1) % U8]

tick_timers(self) ==
  LET s1 == IF self.dt > 0 THEN [self EXCEPT !.dt = self.dt - 1] ELSE self
  IN IF s1.st > 0 THEN [s1 EXCEPT !.st = s1.st - 1] ELSE s1

\* what tick_timers tells its caller about a beep: the branch taken when st
\* is 1 is empty and the method returns (), so no call signals anything
tick_timers_beep(self) == FALSE

get_display(self) == self.screen

\* keypress reducing the index to the keypad's size instead of failing
keypress_Masked(self, idx, pressed) ==
  [self EXCEPT !.keys[idx % KEYPAD_SIZE] = pressed]

keypress(self, idx, pressed) ==
  IF idx >= KEYPAD_SIZE THEN Panic(self)
  ELSE [self EXCEPT !.keys[idx] = pressed]

\* load refusing a slice that ends at the last byte of memory
load_EndExclusive(self, data) ==
  LET start == START_ADDR
      end == Len(data) + START_ADDR
  IN IF end >= MEM_SIZE THEN Panic(self)
     ELSE [self EXCEPT !.ram = [a \in 0..(MEM_SIZE - 1) |->
                                  IF a >= start /\ a < end
                                  THEN data[a - start + 1] ELSE self.ram[a]]]

\* load: ram[START_ADDR .. START_ADDR + len) = data; the slice is range
\* checked before anything is copied
load(self, data) ==
  LET start == START_ADDR
      end == Len(data) + START_ADDR
  IN IF end > MEM_SIZE THEN Panic(self)
     ELSE [self EXCEPT !.ram = [a \in 0..(MEM_SIZE - 1) |->
                                  IF a >= start /\ a < end
                                  THEN data[a - start + 1] ELSE self.ram[a]]]

\* ---------------------------------------------------------------------
\* f32 arithmetic of Fx33.  A float is the dyadic rational m / 2^sh.
\* The operands of the source are integers below 256, so every value is
\* normal and the quotient is rounded to 24 significant bits, ties to even.
F32FromInt(n) == [m |-> n, sh |-> 0]

\* long division: q = floor(a * 2^sh / b), r = the remainder
RECURSIVE F32DivBits(_, _, _, _)
F32DivBits(q, r, b, sh) ==
  IF q >= Pow2(23) THEN [q |-> q, r |-> r, sh |-> sh]
  ELSE F32DivBits(2 * q + (IF 2 * r >= b THEN 1 ELSE 0), (2 * r) % b, b, sh + 1)

\* a / b for a float holding the integer a and the integer constant b
F32Div(x, b) ==
  IF x.m = 0 THEN [m |-> 0, sh |-> 0]
  ELSE LET d == F32DivBits(x.m \div b, x.m % b, b, 0)
           up == \/ 2 * d.r > b
                 \/ 2 * d.r = b /\ d.q % 2 = 1
       IN [m |-> IF up THEN d.q + 1 ELSE d.q, sh |-> d.sh]

\* x % b (fmod, exact) for the integer constant b
F32Rem(x, b) == [m |-> x.m % (b * Pow2(x.sh)), sh |-> x.sh]

F32Floor(x) == [m |-> x.m \div Pow2(x.sh), sh |-> 0]

\* `as u8`: truncate toward zero, saturating at 255
F32AsU8(x) ==
  LET t == x.m \div Pow2(x.sh) IN IF t > U8 - 1 THEN U8 - 1 ELSE t

\* ---------------------------------------------------------------------
\* the column loop setting the pixels instead of toggling them
RECURSIVE DrawCols_Set(_, _, _, _, _)
DrawCols_Set(d, pixels, x_coord, y_coord, y_line) ==
  IF d.x_line >= 8 THEN d
  ELSE IF BitAnd(pixels, Shr(128, d.x_line)) # 0
  THEN LET x == (x_coord + d.x_line) % SCREEN_WIDTH
           y == (y_coord + y_line) % SCREEN_HEIGHT
           idx == x + SCREEN_WIDTH * y
       IN DrawCols_Set([screen  |-> [d.screen EXCEPT ![idx] = TRUE],
                        flipped |-> d.flipped \/ d.screen[idx],
                        x_line  |-> d.x_line + 1],
                       pixels, x_coord, y_coord, y_line)
  ELSE DrawCols_Set([d EXCEPT !.x_line = d.x_line + 1],
                    pixels, x_coord, y_coord, y_line)

\* Dxyn: the loop over the columns of one sprite row.  d holds the loop's
\* variables: the screen, flipped, and the column x_line reached
RECURSIVE DrawCols(_, _, _, _, _)
DrawCols(d, pixels, x_coord, y_coord, y_line) ==
  IF d.x_line >= 8 THEN d
  ELSE IF BitAnd(pixels, Shr(128, d.x_line)) # 0
  THEN LET x == (x_coord + d.x_line) % SCREEN_WIDTH
           y == (y_coord + y_line) % SCREEN_HEIGHT
           idx == x + SCREEN_WIDTH * y
       IN DrawCols([screen  |-> [d.screen EXCEPT ![idx] = ~d.screen[idx]],
                    flipped |-> d.flipped \/ d.screen[idx],
                    x_line  |-> d.x_line + 1],
                   pixels, x_coord, y_coord, y_line)
  ELSE DrawCols([d EXCEPT !.x_line = d.x_line + 1],
                pixels, x_coord, y_coord, y_line)

\* Dxyn: the loop over the sprite rows; it stops at the first failing access.
\* d holds the loop's variables: the screen, flipped, the row y_line reached,
\* and whether an access has failed
RECURSIVE DrawRows(_, _, _, _, _, _)
DrawRows(self, d, x_coord, y_coord, num_rows, oc) ==
  IF d.y_line >= num_rows THEN d
  ELSE LET sum == self.i_reg + d.y_line
           addr == sum % U16
       IN IF (sum >= U16 /\ oc) \/ addr >= MEM_SIZE
          THEN [d EXCEPT !.panic = TRUE]
          ELSE LET row == DrawCols([screen |-> d.screen, flipped |-> d.flipped,
                                    x_line |-> 0],
                                   self.ram[addr], x_coord, y_coord, d.y_line)
               IN DrawRows(self,
                           [screen |-> row.screen, flipped |-> row.flipped,
                            y_line |-> d.y_line + 1, panic |-> FALSE],
                           x_coord, y_coord, num_rows, oc)

\* Fx0A: index of the first pressed key at or after i, KEYPAD_SIZE if none
RECURSIVE FirstPressed(_, _)
FirstPressed(keys, i) ==
  IF i >= KEYPAD_SIZE THEN KEYPAD_SIZE
  ELSE IF keys[i] THEN i
  ELSE FirstPressed(keys, i + 1)

\* Fx55 with the exclusive range 0..x
RECURSIVE StoreRegs_Exclusive(_, _, _, _)
StoreRegs_Exclusive(self, i, x, idx) ==
  IF idx >= x THEN self
  ELSE IF i + idx >= MEM_SIZE THEN Panic(self)
  ELSE StoreRegs_Exclusive([self EXCEPT !.ram[i + idx] = self.v_reg[idx]],
                           i, x, idx + 1)

\* Fx55: for idx in 0..=x { ram[i + idx] = v_reg[idx] }
RECURSIVE StoreRegs(_, _, _, _)
StoreRegs(self, i, x, idx) ==
  IF idx > x THEN self
  ELSE IF i + idx >= MEM_SIZE THEN Panic(self)
  ELSE StoreRegs([self EXCEPT !.ram[i + idx] = self.v_reg[idx]], i, x, idx + 1)

\* Fx65: for idx in 0..=x { v_reg[idx] = ram[i + idx] }
RECURSIVE LoadRegs(_, _, _, _)
LoadRegs(self, i, x, idx) ==
  IF idx > x THEN self
  ELSE IF i + idx >= MEM_SIZE THEN Panic(self)
  ELSE LoadRegs([self EXCEPT !.v_reg[idx] = self.ram[i + idx]], i, x, idx + 1)

\* v_reg[x] = vx; v_reg[0xF] = vf, in that order
SetVxThenVF(self, x, vx, vf) ==
  [self EXCEPT !.v_reg = [[self.v_reg EXCEPT ![x] = vx] EXCEPT ![15] = vf]]

\* pc += 2 of the skip instructions
Skip(self) == [self EXCEPT !.pc = self.pc + 2]

\* 00EE
Op00EE(self, oc) ==
  LET r == pop(self, oc)
  IN IF r.c.panic THEN r.c ELSE [r.c EXCEPT !.pc = r.ret]

\* 1nnn
Op1nnn(self, nnn) == [self EXCEPT !.pc = nnn]

\* 2nnn pushing the address of the call itself
Op2nnn_PushCallSite(self, addr) ==
  LET s1 == push(self, self.pc - 2)
  IN IF s1.panic THEN s1 ELSE [s1 EXCEPT !.pc = addr]

\* 2nnn
Op2nnn(self, addr) ==
  LET s1 == push(self, self.pc)
  IN IF s1.panic THEN s1 ELSE [s1 EXCEPT !.pc = addr]

\* 3xnn
Op3xnn(self, x, nn) == IF self.v_reg[x] = nn THEN Skip(self) ELSE self

\* 4xnn
Op4xnn(self, x, nn) == IF self.v_reg[x] # nn THEN Skip(self) ELSE self

\* 5xy0
Op5xy0(self, x, y) == IF self.v_reg[x] = self.v_reg[y] THEN Skip(self) ELSE self

\* 9xy0 skipping on equal registers
Op9xy0_Eq(self, x, y) == IF self.v_reg[x] = self.v_reg[y] THEN Skip(self) ELSE self

\* 9xy0
Op9xy0(self, x, y) == IF self.v_reg[x] # self.v_reg[y] THEN Skip(self) ELSE self

\* 8xy4 writing the flag before the sum
Op8xy4_FlagFirst(self, x, y) ==
  LET sum == self.v_reg[x] + self.v_reg[y]
      new_vx == sum % U8
      new_vf == IF sum > U8 - 1 THEN 1 ELSE 0
  IN [self EXCEPT !.v_reg = [[self.v_reg EXCEPT ![15] = new_vf] EXCEPT ![x] = new_vx]]

\* 8xy4: overflowing_add
Op8xy4(self, x, y) ==
  LET sum == self.v_reg[x] + self.v_reg[y]
      new_vx == sum % U8
      carry == sum > U8 - 1
      new_vf == IF carry THEN 1 ELSE 0
  IN SetVxThenVF(self, x, new_vx, new_vf)

\* 8xy5 with the flag of the comment "if Vx > Vy": 0 on equal operands
Op8xy5_Strict(self, x, y) ==
  LET diff == self.v_reg[x] - self.v_reg[y]
      new_vx == diff % U8
      new_vf == IF diff > 0 THEN 1 ELSE 0
  IN SetVxThenVF(self, x, new_vx, new_vf)

\* 8xy5: overflowing_sub(Vx, Vy)
Op8xy5(self, x, y) ==
  LET diff == self.v_reg[x] - self.v_reg[y]
      new_vx == diff % U8
      borrow == diff < 0
      new_vf == IF borrow THEN 0 ELSE 1
  IN SetVxThenVF(self, x, new_vx, new_vf)

\* 8xy6 shifting Vy into Vx
Op8xy6_FromVy(self, x, y) ==
  LET lsb == BitAnd(self.v_reg[y], 1)
  IN SetVxThenVF(self, x, Shr(self.v_reg[y], 1), lsb)

\* 8xy6
Op8xy6(self, x, y) ==
  LET lsb == BitAnd(self.v_reg[x], 1)
  IN SetVxThenVF(self, x, Shr(self.v_reg[x], 1), lsb)

\* 8xy7: overflowing_sub(Vy, Vx)
Op8xy7(self, x, y) ==
  LET diff == self.v_reg[y] - self.v_reg[x]
      new_vx == diff % U8
      borrow == diff < 0
      new_vf == IF borrow THEN 0 ELSE 1
  IN SetVxThenVF(self, x, new_vx, new_vf)

\* 8xyE
Op8xyE(self, x) ==
  LET msb == BitAnd(Shr(self.v_reg[x], 7), 1)
  IN SetVxThenVF(self, x, Shl(self.v_reg[x], 1, U8), msb)

\* Bnnn keeping the target within 12 bits
OpBnnn_Masked(self, nnn) == [self EXCEPT !.pc = (self.v_reg[0] + nnn) % MEM_SIZE]

\* Bnnn
OpBnnn(self, nnn) == [self EXCEPT !.pc = self.v_reg[0] + nnn]

\* Dxyn never clearing VF
OpDxyn_KeepVF(self, x, y, n, oc) ==
  LET d == DrawRows(self,
                    [screen |-> self.screen, flipped |-> FALSE,
                     y_line |-> 0, panic |-> FALSE],
                    self.v_reg[x], self.v_reg[y], n, oc)
      s1 == [self EXCEPT !.screen = d.screen]
  IN IF d.panic THEN Panic(s1)
     ELSE IF d.flipped THEN [s1 EXCEPT !.v_reg[15] = 1] ELSE s1

\* Dxyn
OpDxyn(self, x, y, n, oc) ==
  LET x_coord == self.v_reg[x]
      y_coord == self.v_reg[y]
      num_rows == n
      d == DrawRows(self,
                    [screen |-> self.screen, flipped |-> FALSE,
                     y_line |-> 0, panic |-> FALSE],
                    x_coord, y_coord, num_rows, oc)
      s1 == [self EXCEPT !.screen = d.screen]
  IN IF d.panic THEN Panic(s1)
     ELSE [s1 EXCEPT !.v_reg[15] = IF d.flipped THEN 1 ELSE 0]

\* Fx0A without the redo of the opcode
OpFx0A_NoRedo(self, x) ==
  LET i == FirstPressed(self.keys, 0)
  IN IF i < KEYPAD_SIZE THEN [self EXCEPT !.v_reg[x] = i] ELSE self

\* Fx0A clearing Vx while it waits
OpFx0A_ClearVx(self, x) ==
  LET i == FirstPressed(self.keys, 0)
      pressed == i < KEYPAD_SIZE
  IN IF pressed THEN [self EXCEPT !.v_reg[x] = i]
     ELSE [self EXCEPT !.v_reg[x] = 0, !.pc = self.pc - 2]

\* Fx0A
OpFx0A(self, x) ==
  LET i == FirstPressed(self.keys, 0)
      pressed == i < KEYPAD_SIZE
  IN IF pressed THEN [self EXCEPT !.v_reg[x] = i]
     ELSE [self EXCEPT !.pc = self.pc - 2]

\* the digits with the tens not reduced modulo 10
Bcd_TensNotReduced(vx) ==
  LET f == F32FromInt(vx)
  IN [hundreds |-> F32AsU8(F32Floor(F32Div(f, 100))),
      tens     |-> F32AsU8(F32Floor(F32Div(f, 10))),
      ones     |-> F32AsU8(F32Rem(f, 10))]

\* Fx33: the three digits, computed in f32
Bcd(vx) ==
  LET f == F32FromInt(vx)
  IN [hundreds |-> F32AsU8(F32Floor(F32Div(f, 100))),
      tens     |-> F32AsU8(F32Floor(F32Rem(F32Div(f, 10), 10))),
      ones     |-> F32AsU8(F32Rem(f, 10))]

\* Fx33 with the three addresses reduced to the size of the memory
OpFx33_Wrap(self, x, oc) ==
  LET d == Bcd(self.v_reg[x])
      i == self.i_reg
  IN [self EXCEPT !.ram = [[[self.ram EXCEPT ![i % MEM_SIZE] = d.hundreds]
                              EXCEPT ![(i + 1) % MEM_SIZE] = d.tens]
                              EXCEPT ![(i + 2) % MEM_SIZE] = d.ones]]

\* Fx33: the three stores, each index checked; I + 1 and I + 2 are u16 sums
OpFx33(self, x, oc) ==
  LET d == Bcd(self.v_reg[x])
      i == self.i_reg
  IN IF i >= MEM_SIZE THEN Panic(self)
     ELSE LET s1 == [self EXCEPT !.ram[i] = d.hundreds]
          IN IF (i + 1 >= U16 /\ oc) \/ (i + 1) % U16 >= MEM_SIZE
             THEN Panic(s1)
             ELSE LET s2 == [s1 EXCEPT !.ram[(i + 1) % U16] = d.tens]
                  IN IF (i + 2 >= U16 /\ oc) \/ (i + 2) % U16 >= MEM_SIZE
                     THEN Panic(s2)
                     ELSE [s2 EXCEPT !.ram[(i + 2) % U16] = d.ones]

\* an opcode without an arm of its own taken for a no-op
Unimplemented_Ignored(self, op) == self

\* the last arm of execute: unimplemented!()
Unimplemented(self, op) == Panic(self)

\* execute: rng is the byte random() returns
execute(self, op, oc, rng) ==
  LET d1 == Shr(BitAnd(op, 61440), 12)
      d2 == Shr(BitAnd(op, 3840), 8)
      d3 == Shr(BitAnd(op, 240), 4)
      d4 == BitAnd(op, 15)
      x == d2
      y == d3
      nn == BitAnd(op, 255)
      nnn == BitAnd(op, 4095)
      vx == self.v_reg[x]
      vy == self.v_reg[y]
  IN
  CASE d1 = 0 /\ d2 = 0 /\ d3 = 0 /\ d4 = 0 -> self
    [] d1 = 0 /\ d2 = 0 /\ d3 = 14 /\ d4 = 0 ->
         [self EXCEPT !.screen =
            [p \in 0..(SCREEN_WIDTH * SCREEN_HEIGHT - 1) |-> FALSE]]
    [] d1 = 0 /\ d2 = 0 /\ d3 = 14 /\ d4 = 14 -> Op00EE(self, oc)
    [] d1 = 1 -> Op1nnn(self, nnn)
    [] d1 = 2 -> Op2nnn(self, nnn)
    [] d1 = 3 -> Op3xnn(self, x, nn)
    [] d1 = 4 -> Op4xnn(self, x, nn)
    [] d1 = 5 /\ d4 = 0 -> Op5xy0(self, x, y)
    [] d1 = 6 -> [self EXCEPT !.v_reg[x] = nn]
    [] d1 = 7 -> [self EXCEPT !.v_reg[x] = (vx + nn) % U8]
    [] d1 = 8 /\ d4 = 0 -> [self EXCEPT !.v_reg[x] = vy]
    [] d1 = 8 /\ d4 = 1 -> [self EXCEPT !.v_reg[x] = BitOr(vx, vy)]
    [] d1 = 8 /\ d4 = 2 -> [self EXCEPT !.v_reg[x] = BitAnd(vx, vy)]
    [] d1 = 8 /\ d4 = 3 -> [self EXCEPT !.v_reg[x] = BitXor(vx, vy)]
    [] d1 = 8 /\ d4 = 4 -> Op8xy4(self, x, y)
    [] d1 = 8 /\ d4 = 5 -> Op8xy5(self, x, y)
    [] d1 = 8 /\ d4 = 6 -> Op8xy6(self, x, y)
    [] d1 = 8 /\ d4 = 7 -> Op8xy7(self, x, y)
    [] d1 = 8 /\ d4 = 14 -> Op8xyE(self, x)
    [] d1 = 9 /\ d4 = 0 -> Op9xy0(self, x, y)
    [] d1 = 10 -> [self EXCEPT !.i_reg = nnn]
    [] d1 = 11 -> OpBnnn(self, nnn)
    [] d1 = 12 -> [self EXCEPT !.v_reg[x] = BitAnd(rng, nn)]
    [] d1 = 13 -> OpDxyn(self, x, y, d4, oc)
    [] d1 = 14 /\ d3 = 9 /\ d4 = 14 ->
         IF vx >= KEYPAD_SIZE THEN Panic(self)
         ELSE IF self.keys[vx] THEN Skip(self) ELSE self
    [] d1 = 14 /\ d3 = 10 /\ d4 = 1 ->
         IF vx >= KEYPAD_SIZE THEN Panic(self)
         ELSE IF ~self.keys[vx] THEN Skip(self) ELSE self
    [] d1 = 15 /\ d3 = 0 /\ d4 = 7 -> [self EXCEPT !.v_reg[x] = self.dt]
    [] d1 = 15 /\ d3 = 0 /\ d4 = 10 -> OpFx0A(self, x)
    [] d1 = 15 /\ d3 = 1 /\ d4 = 5 -> [self EXCEPT !.dt = vx]
    [] d1 = 15 /\ d3 = 1 /\ d4 = 8 -> [self EXCEPT !.st = vx]
    [] d1 = 15 /\ d3 = 1 /\ d4 = 14 ->
         [self EXCEPT !.i_reg = (self.i_reg + vx) % U16]
    [] d1 = 15 /\ d3 = 2 /\ d4 = 9 -> [self EXCEPT !.i_reg = vx * 5]
    [] d1 = 15 /\ d3 = 3 /\ d4 = 3 -> OpFx33(self, x, oc)
    [] d1 = 15 /\ d3 = 5 /\ d4 = 5 -> StoreRegs(self, self.i_reg, x, 0)
    [] d1 = 15 /\ d3 = 6 /\ d4 = 5 -> LoadRegs(self, self.i_reg, x, 0)
    [] OTHER -> Unimplemented(self, op)

\* tick: fetch, then execute what was fetched
tick(self, oc, rng) ==
  LET f == fetch(self, oc)
  IN IF f.c.panic THEN f.c ELSE execute(f.c, f.op, oc, rng)

\* the opcode tick fetches (0 when the fetch fails)
fetched(self) == fetch(self, TRUE).op

\* ---------------------------------------------------------------------
\* Programs.  An instruction is two bytes, big-endian.
Ins(d1, d2, d3, d4) == <<d1 * 16 + d2, d3 * 16 + d4>>
InsXNN(d1, x, nn) == <<d1 * 16 + x, nn>>
InsNNN(d1, nnn) == <<d1 * 16 + (nnn \div 256), nnn % 256>>

\* the program's address of its k-th instruction (k = 0, 1, ...)
At(k) == START_ADDR + 2 * k

\* "jump to self": the idiom a CHIP-8 program ends with
Halt(k) == InsNNN(1, At(k))

RegSamples == {0, 1, 15}
ByteSamples == {0, 1, 127, 128, 255}

\* n zero bytes
Pad(n) == [i \in 1..n |-> 0]

\* 6x a; 6y b; 8xyk; halt
AluRoms ==
  { InsXNN(6, x, a) \o InsXNN(6, y, b) \o Ins(8, x, y, k) \o Halt(3) :
      x \in RegSamples, y \in RegSamples, a \in ByteSamples, b \in ByteSamples,
      k \in {4, 5, 6, 7, 14} }

\* 6x a; 3x c or 4x c; halt; halt
SkipImmRoms ==
  { InsXNN(6, x, a) \o InsXNN(d1, x, c) \o Halt(2) \o Halt(3) :
      x \in RegSamples, a \in ByteSamples, c \in ByteSamples, d1 \in {3, 4} }

\* 6x a; 6y b; 5xy0 or 9xy0; halt; halt
SkipRegRoms ==
  { InsXNN(6, x, a) \o InsXNN(6, y, b) \o Ins(d1, x, y, 0) \o Halt(3) \o Halt(4) :
      x \in RegSamples, y \in RegSamples, a \in ByteSamples, b \in ByteSamples,
      d1 \in {5, 9} }

\* the jump operands <<nnn, V0>> tried
JumpCases ==
  { <<0, 0>>, <<0, 255>>, <<512, 0>>, <<512, 255>>, <<516, 0>>, <<516, 2>>,
    <<516, 255>>, <<767, 1>>, <<4094, 0>>, <<4094, 255>>, <<4095, 0>>,
    <<4095, 255>> }

\* 60 v0; 1nnn, 2nnn or Bnnn; halt; halt; and a halt at the jump's target
\* when that lies in the zero bytes after the program
JumpRom(d1, nnn, v0) ==
  LET target == IF d1 = 11 THEN nnn + v0 ELSE nnn
      head == InsXNN(6, 0, v0) \o InsNNN(d1, nnn) \o Halt(2) \o Halt(3)
  IN IF target >= At(4) /\ target < 1024
     THEN head \o Pad(target - At(4)) \o InsNNN(1, target)
     ELSE head

JumpRoms == { JumpRom(d1, c[1], c[2]) : d1 \in {1, 2, 11}, c \in JumpCases }

ISamples == {0, 516, 768, 4093, 4094, 4095}

\* 6x a; Annn; Fx33; halt
BcdRoms ==
  { InsXNN(6, x, a) \o InsNNN(10, 768) \o Ins(15, x, 3, 3) \o Halt(3) :
      x \in {0, 15}, a \in 0..255 }
  \cup
  { InsXNN(6, x, a) \o InsNNN(10, i) \o Ins(15, x, 3, 3) \o Halt(3) :
      x \in RegSamples, a \in ByteSamples, i \in ISamples }

CpuRoms == AluRoms \cup SkipImmRoms \cup SkipRegRoms \cup JumpRoms \cup BcdRoms

\* sprite rows kept after the program of a draw ROM
SpriteData == <<255, 129, 165, 0, 1, 128, 24, 60, 126, 255, 0, 66, 36, 24, 129>>

\* where the rows of SpriteData lie once the ROM is loaded
SpriteAddr == At(8)

\* sprite addresses: the font, zero bytes, SpriteData, the last bytes of memory
DrawISamples == {0, 256, SpriteAddr, 4090}
DrawRows_Samples == {0, 1, 5, 15}
DrawCoords == { <<0, 0>>, <<60, 30>>, <<63, 31>>, <<64, 32>>, <<255, 255>> }
DrawRegs == { <<0, 1>>, <<2, 2>>, <<15, 0>>, <<0, 15>> }
DrawShift == {0, 4}

\* 6x a; 6y b; Annn; Dxyn; 7x dx; Dxyn; Dxyn; halt; sprite rows
DrawRoms ==
  { InsXNN(6, r[1], c[1]) \o InsXNN(6, r[2], c[2]) \o InsNNN(10, i)
      \o Ins(13, r[1], r[2], n) \o InsXNN(7, r[1], dx)
      \o Ins(13, r[1], r[2], n) \o Ins(13, r[1], r[2], n) \o Halt(7)
      \o SpriteData :
      r \in DrawRegs, c \in DrawCoords, i \in DrawISamples,
      n \in DrawRows_Samples, dx \in DrawShift }

KeySamples == {0, 7, 15}

\* 6x 9; Fx0A; halt
KeyRoms ==
  { InsXNN(6, x, 9) \o Ins(15, x, 0, 10) \o Halt(2) : x \in RegSamples }

\* ---------------------------------------------------------------------
\* The driver: the calls a host makes on the machine.
NoCall == [name |-> "new"]
NoBurst == [base |-> 0, pushes |-> <<>>, pops |-> <<>>]

\* remember the call being made and the machine it is made on
Log(c) ==
  /\ call' = c
  /\ pre' = c8
  /\ call2' = call
  /\ pre2' = pre

Init ==
  /\ c8 = new
  /\ call = NoCall
  /\ pre = new
  /\ call2 = NoCall
  /\ pre2 = new
  /\ burst = NoBurst

\* a machine that has been built and given one of the programs
InitWith(roms) ==
  /\ c8 \in { load(new, data) : data \in roms }
  /\ call = [name |-> "load"]
  /\ pre = new
  /\ call2 = NoCall
  /\ pre2 = new
  /\ burst = NoBurst

\* the host loads a program into a machine it has just built or reset
Fresh == c8 = new

Load(roms) ==
  \E data \in roms :
    /\ Fresh
    /\ c8' = load(c8, data)
    /\ Log([name |-> "load"])
    /\ UNCHANGED burst

RngSamples == {0, 165, 255}

\* the bytes random() may return, offered where the instruction asks (Cxkk)
RandomBytes(op) == IF op \div 4096 = 12 THEN RngSamples ELSE {0}

\* the build's overflow checking, offered where an instruction can overflow
\* (00EE through pop, Dxyn and Fx33 through I + offset)
Builds(op) == IF op \div 4096 \in {0, 13, 15} THEN BOOLEAN ELSE {TRUE}

Tick ==
  \E oc \in Builds(fetched(c8)), rng \in RandomBytes(fetched(c8)) :
    /\ ~c8.panic
    /\ c8' = tick(c8, oc, rng)
    /\ Log([name |-> "tick", op |-> fetched(c8)])
    /\ UNCHANGED burst

Keypress ==
  \E idx \in KeySamples, pressed \in BOOLEAN :
    /\ ~c8.panic
    /\ c8' = keypress(c8, idx, pressed)
    /\ Log([name |-> "keypress", idx |-> idx, pressed |-> pressed])
    /\ UNCHANGED burst

\* the addresses a caller pushes at depth sp: one per depth, and a second
\* one on the first VariedDepth levels
VariedDepth == 2
PushVals(sp) ==
  {At(sp)} \cup (IF sp < VariedDepth THEN {4095 - sp} ELSE {})

\* a push; it continues the burst of pushes in progress, or starts a new
\* burst at the present depth when pops have been made since
Push ==
  \E val \in PushVals(c8.sp) :
    /\ ~c8.panic
    /\ c8' = push(c8, val)
    /\ Log([name |-> "push", val |-> val])
    /\ burst' = IF burst.pops = <<>>
                THEN [burst EXCEPT !.pushes = Append(@, val)]
                ELSE [base |-> c8.sp, pushes |-> <<val>>, pops |-> <<>>]

\* a pop; what it returns is appended to the burst's pops
Pop ==
  \E oc \in BOOLEAN :
    LET r == pop(c8, oc)
    IN /\ ~c8.panic
       /\ c8' = r.c
       /\ Log([name |-> "pop", ret |-> r.ret])
       /\ burst' = IF r.c.panic THEN burst
                   ELSE [burst EXCEPT !.pops = Append(@, r.ret)]

\* 6x a; A005; Dxx5; Fx15; Fx18; A300; Fx33; 2nnn; halt: a program that
\* leaves no field of the machine as new() made it
HostRoms ==
  { InsXNN(6, x, a) \o InsNNN(10, 5) \o Ins(13, x, x, 5) \o Ins(15, x, 1, 5)
      \o Ins(15, x, 1, 8) \o InsNNN(10, 768) \o Ins(15, x, 3, 3)
      \o InsNNN(2, At(8)) \o Halt(8) :
      x \in {0, 15}, a \in {3} }
  \cup
  \* 6x 0F; Ex9E; ExA1; Fx0A; halt: the instructions that read the keypad
  { InsXNN(6, x, 15) \o Ins(14, x, 9, 14) \o Ins(14, x, 10, 1)
      \o Ins(15, x, 0, 10) \o Halt(4) : x \in {1} }

\* key indices a host passes to keypress: two keys and one past the keypad
HostKeys == {0, 15, KEYPAD_SIZE}

\* the host runs only a machine it has loaded a program into
Loaded == c8.ram # new.ram

TickLoaded == Loaded /\ Tick

TickTimers ==
  /\ ~c8.panic
  /\ c8' = tick_timers(c8)
  /\ Log([name |-> "tick_timers", beep |-> tick_timers_beep(c8)])
  /\ UNCHANGED burst

Reset ==
  /\ ~c8.panic
  /\ c8' = reset(c8)
  /\ Log([name |-> "reset"])
  /\ UNCHANGED burst

KeypressAny ==
  \E idx \in HostKeys, pressed \in BOOLEAN :
    /\ ~c8.panic
    /\ c8' = keypress(c8, idx, pressed)
    /\ Log([name |-> "keypress", idx |-> idx, pressed |-> pressed])
    /\ UNCHANGED burst

LoadCpu == Load(CpuRoms)

\* instructions on registers, memory and PC
Next == LoadCpu \/ Tick

Spec == Init /\ [][Next]_vars

\* the key wait, with the host's key events
InitKey == InitWith(KeyRoms)

NextKey == Tick \/ Keypress

SpecKey == InitKey /\ [][NextKey]_vars

\* drawing
LoadDraw == Load(DrawRoms)

NextDraw == LoadDraw \/ Tick

SpecDraw == Init /\ [][NextDraw]_vars

\* Programs that reach the end of the memory.  Every one starts by putting
\* 9C 07 AA into V0..V2 and storing them at 0xFFD..0xFFF.
MemSetup ==
  InsXNN(6, 0, 156) \o InsXNN(6, 1, 7) \o InsXNN(6, 2, 170)
    \o InsNNN(10, 4093) \o Ins(15, 2, 5, 5)

\* the instructions that access memory at I: D015, D010, F033, F255, FF55,
\* F265, FF65
MemOps ==
  { Ins(13, 0, 1, 5), Ins(13, 0, 1, 0), Ins(15, 0, 3, 3), Ins(15, 2, 5, 5),
    Ins(15, 15, 5, 5), Ins(15, 2, 6, 5), Ins(15, 15, 6, 5) }

\* values of I from which x + 1 = 16, 5, 3 or 1 bytes do or do not fit
NearTop == {4080, 4081, 4093, 4094, 4095}

\* Annn; op; halt
MemRomsNear ==
  { MemSetup \o InsNNN(10, i) \o op \o Halt(7) : i \in NearTop, op \in MemOps }

\* VE = FF, VD = F0, I = FFF, then k times FE1E (I += VE)
RaiseI(k) ==
  InsXNN(6, 14, 255) \o InsXNN(6, 13, 240) \o InsNNN(10, 4095)
    \o [j \in 1..(2 * k) |-> IF j % 2 = 1 THEN 254 ELSE 30]

\* the number of FE1E that take I from 0xFFF to 0xFF0F
FullRaise == 240

\* I = 0x10FE after one Fx1E; I = 0xFFFF after FullRaise of them and FD1E;
\* I = 0x00EF after one more FD1E, which wraps I
MemRomsFar ==
  { MemSetup \o RaiseI(1) \o op \o Halt(10) : op \in MemOps }
  \cup
  { MemSetup \o RaiseI(FullRaise) \o Ins(15, 13, 1, 14) \o op
      \o Halt(FullRaise + 10) :
      op \in { Ins(13, 0, 1, 5), Ins(15, 0, 3, 3), Ins(15, 2, 5, 5),
               Ins(15, 2, 6, 5) } }
  \cup
  { MemSetup \o RaiseI(FullRaise) \o Ins(15, 13, 1, 14) \o Ins(15, 13, 1, 14)
      \o op \o Halt(FullRaise + 11) :
      op \in { Ins(15, 0, 3, 3), Ins(15, 2, 6, 5) } }

\* programs that take PC to the end of the memory and past it: BFFF with
\* V0 = FF and with V0 = 0, and 1FFE
PcRoms ==
  { InsXNN(6, 0, 255) \o InsNNN(11, 4095),
    InsNNN(11, 4095),
    InsNNN(1, 4094) }

\* V0, V1, V2, VF set; I = nnn; Fx55; (V0 and VF overwritten;) Fx65; halt
RegBlockRoms ==
  { InsXNN(6, 0, 156) \o InsXNN(6, 1, 7) \o InsXNN(6, 2, 170)
      \o InsXNN(6, 15, 51) \o InsNNN(10, i) \o Ins(15, x, 5, 5) \o mid
      \o Ins(15, x, 6, 5) \o Halt(6 + (Len(mid) \div 2) + 1) :
      i \in {768, 4080}, x \in {0, 1, 15},
      mid \in { <<>>, InsXNN(6, 0, 1) \o InsXNN(6, 15, 2) } }

MemRoms == MemRomsNear \cup MemRomsFar \cup PcRoms \cup RegBlockRoms

LoadMem == Load(MemRoms)
NextMem == LoadMem \/ TickLoaded
SpecMem == Init /\ [][NextMem]_vars

\* Programs of one instruction: every opcode class (d1, d3, d4), with d2 = 0
\* and, for the 0nnn class, d2 = 1 as well
OpcodeRoms ==
  { Ins(d1, d2, d3, d4) \o Halt(1) :
      d1 \in 0..15, d2 \in {0, 1}, d3 \in 0..15, d4 \in 0..15 }

\* programs whose second instruction fails although its opcode is defined:
\* a key index of 16, and accesses at I = 0xFFF
FailingRoms ==
  { InsXNN(6, 1, KEYPAD_SIZE) \o op \o Halt(2) :
      op \in { Ins(14, 1, 9, 14), Ins(14, 1, 10, 1) } }
  \cup
  { InsNNN(10, MEM_SIZE - 1) \o op \o Halt(2) :
      op \in { Ins(13, 0, 0, 2), Ins(15, 0, 3, 3), Ins(15, 1, 5, 5),
               Ins(15, 1, 6, 5), Ins(15, 0, 5, 5), Ins(13, 0, 0, 1) } }
  \cup
  \* a subroutine that calls itself: the 17th call fails
  { InsNNN(2, At(0)) }

OpsRoms == { r \in OpcodeRoms : r[1] \div 16 = 0 \/ r[1] % 16 = 0 } \cup FailingRoms

\* the host follows a program over its first two instructions and leaves a
\* machine that spins on a jump to itself alone
OpsWindow == {At(0), At(1)}
Spinning(m) == fetched(m) = 4096 + m.pc

LoadOps == Load(OpsRoms)
TickOps == c8.pc \in OpsWindow /\ ~Spinning(c8) /\ TickLoaded
NextOps == LoadOps \/ TickOps
SpecOps == Init /\ [][NextOps]_vars

\* Programs that wait for a key.
\* 6x 03; Fx15; Fx18; A005; Dxx5; call the next instruction; Fx0A; halt: the
\* wait is reached with the timers running, a glyph drawn and a call open
\* 1FFE; ...; F00A in the last two bytes of the memory
WaitRoms ==
  { InsXNN(6, x, 3) \o Ins(15, x, 1, 5) \o Ins(15, x, 1, 8) \o InsNNN(10, 5)
      \o Ins(13, x, x, 5) \o InsNNN(2, At(6)) \o Ins(15, x, 0, 10) \o Halt(7) :
      x \in {1} }
  \cup
  { InsNNN(1, MEM_SIZE - 2) \o Pad(MEM_SIZE - START_ADDR - 4)
      \o Ins(15, 0, 0, 10) }

LoadWait == Load(WaitRoms)
NextWait == LoadWait \/ TickLoaded \/ TickTimers \/ KeypressAny \/ Reset
SpecWait == Init /\ [][NextWait]_vars

\* Programs of subroutine calls.
\* n nested subroutines: instruction 0 calls the first, 1 halts; subroutine i
\* is the pair (call of subroutine i + 1; return), the last just a return
NestInstr(n, k) ==
  IF k = 1 THEN Halt(1)
  ELSE IF k % 2 = 1 \/ k = 2 * n THEN Ins(0, 0, 14, 14)
  ELSE InsNNN(2, At(k + 2))

NestRom(n) ==
  [j \in 1..(2 * (2 * n + 1)) |->
     NestInstr(n, (j - 1) \div 2)[((j - 1) % 2) + 1]]

\* main calls A then B; A calls B
MixedRom ==
  InsNNN(2, At(3)) \o InsNNN(2, At(5)) \o Halt(2)
    \o InsNNN(2, At(5)) \o Ins(0, 0, 14, 14) \o Ins(0, 0, 14, 14)

\* a subroutine that counts V0 down and calls itself until V0 = 0
RecRom(v) ==
  InsXNN(6, 0, v) \o InsNNN(2, At(3)) \o Halt(2)
    \o InsXNN(7, 0, 255) \o InsXNN(3, 0, 0) \o InsNNN(2, At(3))
    \o Ins(0, 0, 14, 14)

\* nesting depths tried: the smallest ones, the stack's size, and one more
NestDepths == {1, 2, 3, STACK_SIZE}

CallRoms ==
  { NestRom(n) : n \in NestDepths } \cup {MixedRom}
    \cup { RecRom(v) : v \in NestDepths \cup {STACK_SIZE + 1} }

\* the calls and returns executed so far: a call is kept with its address
\* and the stack depth it found, a return with the PC and depth it left and
\* the number of calls made before it
CallLog(m, n, op, b) ==
  IF n.panic THEN b
  ELSE IF op \div 4096 = 2
  THEN [b EXCEPT !.pushes = Append(@, [site |-> m.pc, depth |-> m.sp])]
  ELSE IF op = 238
  THEN [b EXCEPT !.pops = Append(@, [pc |-> n.pc, depth |-> n.sp,
                                     calls |-> Len(b.pushes)])]
  ELSE b

LoadCalls == Load(CallRoms)

TickCalls ==
  \E oc \in Builds(fetched(c8)), rng \in RandomBytes(fetched(c8)) :
    /\ ~c8.panic
    /\ Loaded
    /\ c8' = tick(c8, oc, rng)
    /\ Log([name |-> "tick", op |-> fetched(c8)])
    /\ burst' = CallLog(c8, tick(c8, oc, rng), fetched(c8), burst)

NextCalls == LoadCalls \/ TickCalls
SpecCalls == Init /\ [][NextCalls]_vars

\* the largest program that fits
MaxRom == MEM_SIZE - START_ADDR

\* data given to load: nothing, short programs, one that ends at the last
\* byte of memory and one that is a byte longer; each program halts at its
\* second instruction
LoadData ==
  { <<>>,
    InsXNN(6, 0, 1) \o Halt(1),
    InsXNN(6, 1, 2) \o Halt(1) \o <<1, 2, 3>>,
    InsNNN(10, 768) \o Halt(1),
    Ins(0, 0, 14, 0) \o Halt(1) \o Pad(MaxRom - 5) \o <<171>>,
    Ins(0, 0, 14, 0) \o Halt(1) \o Pad(MaxRom - 4) \o <<171>> }

\* load is called on the machine as it is, run or not
LoadAny ==
  \E data \in LoadData :
    /\ ~c8.panic
    /\ c8' = load(c8, data)
    /\ Log([name |-> "load", data |-> data])
    /\ UNCHANGED burst

NextLoad == LoadAny \/ TickLoaded
SpecLoad == Init /\ [][NextLoad]_vars

\* a host: it loads, runs, feeds keys, advances the timers and resets
LoadHost == Load(HostRoms)

NextHost == LoadHost \/ TickLoaded \/ TickTimers \/ KeypressAny \/ Reset

SpecHost == Init /\ [][NextHost]_vars

\* the call stack, used directly
NextStack == Push \/ Pop

SpecStack == Init /\ [][NextStack]_vars

\* ---------------------------------------------------------------------
\* The nibbles and operands of the opcode the last tick executed.
D1(op) == op \div 4096
D2(op) == (op \div 256) % 16
D3(op) == (op \div 16) % 16
D4(op) == op % 16
NN(op) == op % 256
NNN(op) == op % 4096

\* the last call was a tick that fetched an opcode and returned
Ticked == call.name = "tick" /\ ~c8.panic

\* C2: after a tick that executes 1nnn or 2nnn, PC = nnn; after Bnnn,
\* PC = nnn + V0 (V0 as it was before the tick); the fetch's +2 is gone.
C2_JumpTarget ==
  Ticked =>
    /\ D1(call.op) \in {1, 2} => c8.pc = NNN(call.op)
    /\ D1(call.op) = 11 => c8.pc = NNN(call.op) + pre.v_reg[0]

\* a Bnnn with V0 = 255 has been executed and took PC past 0xFFF, and
\* (in another run) a 2nnn jumped away
C2_Witness ==
  /\ Ticked
  /\ D1(call.op) = 11
  /\ pre.v_reg[0] = 255
  /\ c8.pc = 4095 + 255

\* the skip condition of 3xnn, 4xnn, 5xy0, 9xy0 on the machine m
SkipCond(m, op) ==
  LET vx == m.v_reg[D2(op)]
      vy == m.v_reg[D3(op)]
  IN CASE D1(op) = 3 -> vx = NN(op)
       [] D1(op) = 4 -> vx # NN(op)
       [] D1(op) = 5 -> vx = vy
       [] D1(op) = 9 -> vx # vy

IsSkipOp(op) == D1(op) \in {3, 4} \/ (D1(op) \in {5, 9} /\ D4(op) = 0)

\* C3: one tick on 3xnn, 4xnn, 5xy0 or 9xy0 moves PC by 4 when the skip
\* condition holds, by 2 when it does not, and changes no register.
C3_SkipAdvance ==
  (Ticked /\ IsSkipOp(call.op)) =>
    /\ c8.pc = pre.pc + (IF SkipCond(pre, call.op) THEN 4 ELSE 2)
    /\ c8.v_reg = pre.v_reg

\* a 9xy0 on unequal registers skipped
C3_Witness ==
  /\ Ticked
  /\ D1(call.op) = 9
  /\ pre.v_reg[D2(call.op)] # pre.v_reg[D3(call.op)]
  /\ c8.pc = pre.pc + 4

IsAlu(op, k) == D1(op) = 8 /\ D4(op) = k

\* C4: after 8xy4, VF = 1 iff the old Vx + Vy exceeds 255, else 0 (also when
\* x or y is F), and for x # F the new Vx is (Vx + Vy) mod 256.
C4_AddCarry ==
  (Ticked /\ IsAlu(call.op, 4)) =>
    LET x == D2(call.op)
        sum == pre.v_reg[x] + pre.v_reg[D3(call.op)]
    IN /\ c8.v_reg[15] = (IF sum > 255 THEN 1 ELSE 0)
       /\ x # 15 => c8.v_reg[x] = sum % 256

\* 8FF4 on VF = 128: the sum 256 carries and VF holds the flag, not the sum
C4_Witness ==
  /\ Ticked
  /\ call.op = 36852
  /\ pre.v_reg[15] = 128
  /\ c8.v_reg[15] = 1

C6_Shift ==
  /\ (Ticked /\ IsAlu(call.op, 6)) =>
       LET x == D2(call.op)
       IN /\ c8.v_reg[15] = pre.v_reg[x] % 2
          /\ x # 15 => c8.v_reg[x] = pre.v_reg[x] \div 2
          /\ \A r \in 0..15 : r \notin {x, 15} => c8.v_reg[r] = pre.v_reg[r]
  /\ (Ticked /\ IsAlu(call.op, 14)) =>
       LET x == D2(call.op)
       IN /\ c8.v_reg[15] = pre.v_reg[x] \div 128
          /\ x # 15 => c8.v_reg[x] = (pre.v_reg[x] * 2) % 256
          /\ \A r \in 0..15 : r \notin {x, 15} => c8.v_reg[r] = pre.v_reg[r]

\* an 8xyE with Vx = 128 and Vy = 1: the flag is Vx's top bit, the result 0
C6_Witness ==
  /\ Ticked
  /\ IsAlu(call.op, 14)
  /\ D2(call.op) = 0
  /\ D3(call.op) = 1
  /\ pre.v_reg[0] = 128
  /\ pre.v_reg[1] = 1
  /\ c8.v_reg[0] = 0
  /\ c8.v_reg[1] = 1
  /\ c8.v_reg[15] = 1

IsFx33(op) == D1(op) = 15 /\ D3(op) = 3 /\ D4(op) = 3

\* C9: after Fx33 with I + 2 <= 0xFFF: memory[I] = Vx div 100,
\* memory[I+1] = (Vx div 10) mod 10, memory[I+2] = Vx mod 10, and no other
\* memory byte, no register and not I is changed.
C9_Bcd ==
  (call.name = "tick" /\ IsFx33(call.op) /\ pre.i_reg + 2 <= 4095) =>
    LET vx == pre.v_reg[D2(call.op)]
        i == pre.i_reg
    IN /\ ~c8.panic
       /\ c8.ram[i] = vx \div 100
       /\ c8.ram[i + 1] = (vx \div 10) % 10
       /\ c8.ram[i + 2] = vx % 10
       /\ \A a \in 0..(MEM_SIZE - 1) :
            a \notin {i, i + 1, i + 2} => c8.ram[a] = pre.ram[a]
       /\ c8.v_reg = pre.v_reg
       /\ c8.i_reg = pre.i_reg

\* Fx33 on Vx = 156 stored 1, 5, 6
C9_Witness ==
  /\ Ticked
  /\ IsFx33(call.op)
  /\ pre.v_reg[D2(call.op)] = 156
  /\ c8.ram[c8.i_reg] = 1
  /\ c8.ram[c8.i_reg + 1] = 5
  /\ c8.ram[c8.i_reg + 2] = 6

IsFx0A(op) == D1(op) = 15 /\ D3(op) = 0 /\ D4(op) = 10

\* the keys held down on the machine m
Pressed(m) == { k \in 0..15 : m.keys[k] }

\* the smallest element of a non-empty set of numbers
Lowest(S) == CHOOSE k \in S : \A j \in S : k <= j

\* C1: a tick on Fx0A with no key pressed leaves PC unchanged, so the
\* instruction is executed again however often tick is called; a tick on
\* Fx0A with a key pressed sets Vx to the lowest pressed key's index and
\* leaves PC at the instruction's address + 2.
C1_KeyWait ==
  (call.name = "tick" /\ IsFx0A(call.op)) =>
    /\ ~c8.panic
    /\ Pressed(pre) = {} => (c8.pc = pre.pc /\ IsFx0A(fetched(c8)))
    /\ Pressed(pre) # {} =>
         /\ c8.v_reg[D2(call.op)] = Lowest(Pressed(pre))
         /\ c8.pc = pre.pc + 2

\* after a tick that stalled, keys 7 and 15 went down and the next tick
\* took 7
C1_Witness ==
  /\ call.name = "tick"
  /\ IsFx0A(call.op)
  /\ Pressed(pre) = {7, 15}
  /\ c8.v_reg[D2(call.op)] = 7
  /\ c8.pc = pre.pc + 2
  /\ call2.name = "keypress"

\* bit c (0 = most significant) of the byte b
SpriteBit(b, c) == (b \div Pow2(7 - c)) % 2

\* the pixels the reference draw of Dxyn toggles on the machine m
Toggled(m, op) ==
  LET vx == m.v_reg[D2(op)]
      vy == m.v_reg[D3(op)]
  IN { ((vx + rc[2]) % 64) + 64 * ((vy + rc[1]) % 32) :
         rc \in { q \in (0..(D4(op) - 1)) \X (0..7) :
                    SpriteBit(m.ram[m.i_reg + q[1]], q[2]) = 1 } }

\* the sprite of the Dxyn lies inside memory
SpriteInMemory(m, op) == m.i_reg + D4(op) <= MEM_SIZE

\* C7: Dxyn toggles exactly the pixels ((Vx + c) mod 64) + 64 * ((Vy + r) mod 32)
\* of the set bits (row r, column c, MSB first) of memory[I + r], r < n,
\* with Vx and Vy taken unwrapped; every other pixel is unchanged; VF = 1 iff
\* a toggled pixel was on before the draw, else 0.
C7_Draw ==
  (call.name = "tick" /\ D1(call.op) = 13 /\ SpriteInMemory(pre, call.op)) =>
    LET T == Toggled(pre, call.op)
    IN /\ ~c8.panic
       /\ \A p \in 0..2047 : c8.screen[p] = (pre.screen[p] # (p \in T))
       /\ c8.v_reg[15] = (IF \E p \in T : pre.screen[p] THEN 1 ELSE 0)

\* a sprite row 0xFF drawn at Vx = 63, Vy = 31 on a clear display: its first
\* column is at x = 63, its second at x = 0, both on line 31
C7_Witness ==
  /\ Ticked
  /\ D1(call.op) = 13
  /\ D4(call.op) = 1
  /\ pre.v_reg[D2(call.op)] = 63
  /\ pre.v_reg[D3(call.op)] = 31
  /\ pre.ram[pre.i_reg] = 255
  /\ \A p \in 0..2047 : ~pre.screen[p]
  /\ c8.screen[63 + 64 * 31]
  /\ c8.screen[0 + 64 * 31]
  /\ ~c8.screen[0]
  /\ c8.v_reg[15] = 0

\* the last two calls were ticks on the same Dxyn, with I, Vx, Vy and the
\* sprite's bytes the same at both
DrawnTwice ==
  /\ Ticked
  /\ call2.name = "tick"
  /\ D1(call.op) = 13
  /\ call2.op = call.op
  /\ pre.i_reg = pre2.i_reg
  /\ pre.v_reg[D2(call.op)] = pre2.v_reg[D2(call.op)]
  /\ pre.v_reg[D3(call.op)] = pre2.v_reg[D3(call.op)]
  /\ \A r \in 0..(D4(call.op) - 1) :
       pre.ram[pre.i_reg + r] = pre2.ram[pre2.i_reg + r]

\* the pixels the first of the two draws turned on
SetByFirst == { p \in 0..2047 : ~pre2.screen[p] /\ pre.screen[p] }

\* C8 as claimed: the second of two identical draws restores the display
\* and always leaves VF = 1.
C8_Original ==
  DrawnTwice =>
    /\ c8.screen = pre2.screen
    /\ c8.v_reg[15] = 1

\* C8: the second of two identical draws restores the display as it was
\* before the first, so every pixel the first draw set is clear again; VF = 1
\* after it iff the first draw set at least one pixel, else VF = 0.
C8_DrawTwice ==
  DrawnTwice =>
    /\ c8.screen = pre2.screen
    /\ \A p \in SetByFirst : ~c8.screen[p]
    /\ c8.v_reg[15] = (IF SetByFirst # {} THEN 1 ELSE 0)

\* a sprite drawn twice: the first draw set pixels, the second cleared them
\* and reported the collision
C8_Witness ==
  /\ DrawnTwice
  /\ SetByFirst # {}
  /\ c8.screen = pre2.screen
  /\ c8.v_reg[15] = 1

\* the sequence s back to front
Reverse(s) == [k \in 1..Len(s) |-> s[Len(s) + 1 - k]]

\* C10: the stack is LIFO.  The pops made after a burst of pushes return the
\* pushed addresses last first, and when as many have been popped as were
\* pushed the depth is back at the burst's start; push(v) stores v at the old
\* depth and raises the depth by 1, pop returns the entry under the old
\* depth and lowers it by 1.
C10_StackLifo ==
  /\ \A k \in 1..Len(burst.pops) :
       k <= Len(burst.pushes) => burst.pops[k] = Reverse(burst.pushes)[k]
  /\ (~c8.panic /\ Len(burst.pops) = Len(burst.pushes)) => c8.sp = burst.base
  /\ (call.name = "push" /\ pre.sp < STACK_SIZE) =>
       /\ ~c8.panic
       /\ c8.stack[pre.sp] = call.val
       /\ c8.sp = pre.sp + 1
       /\ \A k \in 0..(STACK_SIZE - 1) : k # pre.sp => c8.stack[k] = pre.stack[k]
  /\ (call.name = "pop" /\ pre.sp > 0) =>
       /\ ~c8.panic
       /\ call.ret = pre.stack[pre.sp - 1]
       /\ c8.sp = pre.sp - 1
       /\ c8.stack = pre.stack

\* from depth 3, three addresses (two of them not the default ones) were
\* pushed and popped again
C10_Witness ==
  /\ ~c8.panic
  /\ burst.base = 3
  /\ Len(burst.pushes) = 3
  /\ Len(burst.pops) = 3
  /\ burst.pushes[1] # burst.pushes[2]
  /\ c8.sp = 3
  /\ call.name = "pop"
  /\ call.ret = burst.pushes[1]

\* C11: the stack depth is between 0 and 16 in every state; a push at depth
\* 16 (also by 2nnn) and a pop at depth 0 (also by 00EE) stop the machine and
\* leave the stack pointer and every stack entry as they were.
C11_StackBounds ==
  /\ c8.sp \in 0..STACK_SIZE
  /\ (\/ call.name = "push" /\ pre.sp = STACK_SIZE
      \/ call.name = "tick" /\ D1(call.op) = 2 /\ pre.sp = STACK_SIZE
      \/ call.name = "pop" /\ pre.sp = 0
      \/ call.name = "tick" /\ call.op = 238 /\ pre.sp = 0) =>
       /\ c8.panic
       /\ c8.sp = pre.sp
       /\ c8.stack = pre.stack

\* C12: from any state, reset() leaves the machine equal in every field to a
\* freshly constructed one.
C12_ResetIsNew ==
  call.name = "reset" => c8 = new

\* a reset of a machine none of whose fields was as new() makes it
C12_Witness ==
  /\ call.name = "reset"
  /\ c8 = new
  /\ pre.pc # new.pc
  /\ pre.ram # new.ram
  /\ pre.screen # new.screen
  /\ pre.v_reg # new.v_reg
  /\ pre.i_reg # new.i_reg
  /\ pre.sp # new.sp
  /\ pre.stack # new.stack
  /\ pre.dt # new.dt
  /\ pre.st # new.st
  /\ pre.keys # new.keys

IsFx15(op) == D1(op) = 15 /\ D3(op) = 1 /\ D4(op) = 5
IsFx18(op) == D1(op) = 15 /\ D3(op) = 1 /\ D4(op) = 8

\* C13: tick_timers() lowers DT by 1 when DT > 0 and ST by 1 when ST > 0,
\* leaves a timer that is 0 at 0 and changes nothing else; a tick() changes
\* DT only by Fx15 (DT = Vx) and ST only by Fx18 (ST = Vx).
C13_Timers ==
  /\ call.name = "tick_timers" =>
       c8 = [pre EXCEPT !.dt = IF pre.dt > 0 THEN pre.dt - 1 ELSE 0,
                        !.st = IF pre.st > 0 THEN pre.st - 1 ELSE 0]
  /\ call.name = "tick" =>
       /\ c8.dt = (IF IsFx15(call.op) THEN pre.v_reg[D2(call.op)] ELSE pre.dt)
       /\ c8.st = (IF IsFx18(call.op) THEN pre.v_reg[D2(call.op)] ELSE pre.st)

\* tick_timers on DT = 0 and ST = 2: DT stays 0, ST goes to 1
C13_Witness ==
  /\ call.name = "tick_timers"
  /\ pre.dt = 0
  /\ pre.st = 2
  /\ c8.dt = 0
  /\ c8.st = 1

\* C18: keypress(index, pressed) with index in 0..15 sets keys[index] =
\* pressed and changes nothing else; an index outside 0..15 is an error that
\* changes no key; no tick() and no tick_timers() changes a key.
C18_Keypad ==
  /\ (call.name = "keypress" /\ call.idx < KEYPAD_SIZE) =>
       c8 = [pre EXCEPT !.keys[call.idx] = call.pressed]
  /\ (call.name = "keypress" /\ call.idx >= KEYPAD_SIZE) =>
       /\ c8.panic
       /\ c8.keys = pre.keys
  /\ call.name \in {"tick", "tick_timers"} => c8.keys = pre.keys

\* key 15 went down while key 0 was held, and a tick on Fx0A then read the
\* keypad without changing it
C18_Witness ==
  /\ call.name = "tick"
  /\ IsFx0A(call.op)
  /\ call2.name = "keypress"
  /\ call2.idx = 15
  /\ call2.pressed
  /\ pre2.keys[0]
  /\ ~pre2.keys[15]
  /\ c8.keys[0]
  /\ c8.keys[15]

\* C19: tick_timers() signals a beep to its caller exactly on the call that
\* takes ST from 1 to 0.
C19_Beep ==
  call.name = "tick_timers" => (call.beep <=> pre.st = 1)

\* C14: load(data) with len(data) <= 4096 - 0x200 copies data into
\* memory[0x200 .. 0x200 + len(data)) and changes no other byte and no other
\* field; with len(data) > 4096 - 0x200 it fails and writes nothing to memory.
C14_Load ==
  call.name = "load" =>
    LET n == Len(call.data)
    IN IF n <= MEM_SIZE - START_ADDR
       THEN c8 = [pre EXCEPT !.ram =
                    [a \in 0..(MEM_SIZE - 1) |->
                       IF a \in START_ADDR..(START_ADDR + n - 1)
                       THEN call.data[a - START_ADDR + 1] ELSE pre.ram[a]]]
       ELSE /\ c8.panic
            /\ c8.ram = pre.ram

\* the program that ends at the last byte of memory was loaded over a program
\* that had run, and the load after it of a byte more failed
C14_Witness ==
  /\ call.name = "load"
  /\ Len(call.data) = MaxRom + 1
  /\ c8.panic
  /\ call2.name = "load"
  /\ Len(call2.data) = MaxRom
  /\ ~pre.panic
  /\ pre.ram[MEM_SIZE - 1] = 171
  /\ pre2.ram[MEM_SIZE - 1] = 0
  /\ pre2.ram # new.ram
  /\ pre2.pc # START_ADDR

IsFx55(op) == D1(op) = 15 /\ D3(op) = 5 /\ D4(op) = 5
IsFx65(op) == D1(op) = 15 /\ D3(op) = 6 /\ D4(op) = 5

\* the number of bytes at I, I + 1, ... the opcode accesses
AccessLen(op) ==
  IF D1(op) = 13 THEN D4(op)
  ELSE IF IsFx33(op) THEN 3
  ELSE IF IsFx55(op) \/ IsFx65(op) THEN D2(op) + 1
  ELSE 0

\* the last call was a tick whose fetch at PC, PC + 1 lay inside memory
TickFetched == call.name = "tick" /\ pre.pc + 1 < MEM_SIZE

\* the pixels toggled by the rows of the Dxyn's sprite that lie inside memory
ToggledInMemory(m, op) ==
  LET vx == m.v_reg[D2(op)]
      vy == m.v_reg[D3(op)]
  IN { ((vx + rc[2]) % 64) + 64 * ((vy + rc[1]) % 32) :
         rc \in { q \in (0..(D4(op) - 1)) \X (0..7) :
                    /\ m.i_reg + q[1] < MEM_SIZE
                    /\ SpriteBit(m.ram[m.i_reg + q[1]], q[2]) = 1 } }

\* C15: a tick whose fetch would read beyond 0xFFF stops the machine and
\* changes nothing; a Dxyn, Fx33, Fx55 or Fx65 one of whose addresses
\* I + offset exceeds 0xFFF stops the machine, and nothing is read from or
\* written to an address outside I..0xFFF: memory below I is unchanged, Fx65
\* loads only the registers whose byte lies inside memory, Dxyn draws only the
\* rows that lie inside memory.
C15_NoAccessBeyond ==
  /\ (call.name = "tick" /\ pre.pc + 1 >= MEM_SIZE) =>
       /\ c8.panic
       /\ c8 = [pre EXCEPT !.panic = TRUE]
  /\ (/\ TickFetched
      /\ AccessLen(call.op) > 0
      /\ pre.i_reg + AccessLen(call.op) - 1 >= MEM_SIZE) =>
       /\ c8.panic
       /\ \A a \in 0..(MEM_SIZE - 1) :
            (a < pre.i_reg \/ ~(IsFx33(call.op) \/ IsFx55(call.op))) =>
              c8.ram[a] = pre.ram[a]
       /\ \A r \in 0..(V_REG_SIZE - 1) :
            c8.v_reg[r] =
              IF IsFx65(call.op) /\ r <= D2(call.op) /\ pre.i_reg + r < MEM_SIZE
              THEN pre.ram[pre.i_reg + r] ELSE pre.v_reg[r]
       /\ \A p \in 0..(SCREEN_WIDTH * SCREEN_HEIGHT - 1) :
            c8.screen[p] =
              (pre.screen[p] # (D1(call.op) = 13 /\ p \in ToggledInMemory(pre, call.op)))
       /\ c8.i_reg = pre.i_reg

\* Fx33 on I = 0xFFFF, which FD1E had raised from 0xFF0F, stopped the machine
\* with the memory as it was
C15_Witness ==
  /\ TickFetched
  /\ IsFx33(call.op)
  /\ pre.i_reg = 65535
  /\ call2.name = "tick"
  /\ call2.op = 64798
  /\ pre2.i_reg = 65295
  /\ c8.panic
  /\ c8.ram = pre.ram

\* C20: Fx55 copies V0..Vx into memory[I .. I+x] and Fx65 copies
\* memory[I .. I+x] into V0..Vx, Vx included; both leave I, the registers above
\* Vx and the memory outside I..I+x as they were; Fx65 right after Fx55 with
\* the same x and I leaves V0..Vx as they were stored.
C20_RegBlock ==
  (TickFetched /\ ~c8.panic) =>
    LET x == D2(call.op)
        i == pre.i_reg
    IN /\ IsFx55(call.op) =>
            c8 = [pre EXCEPT !.pc = pre.pc + 2,
                             !.ram = [a \in 0..(MEM_SIZE - 1) |->
                                        IF a \in i..(i + x)
                                        THEN pre.v_reg[a - i] ELSE pre.ram[a]]]
       /\ IsFx65(call.op) =>
            c8 = [pre EXCEPT !.pc = pre.pc + 2,
                             !.v_reg = [r \in 0..(V_REG_SIZE - 1) |->
                                          IF r <= x
                                          THEN pre.ram[i + r] ELSE pre.v_reg[r]]]
       /\ (/\ IsFx65(call.op)
           /\ call2.name = "tick"
           /\ IsFx55(call2.op)
           /\ D2(call2.op) = x
           /\ pre2.i_reg = i) =>
            \A r \in 0..x : c8.v_reg[r] = pre2.v_reg[r]

\* FF65 gave V0 and VF back the 9C and 33 that FF55 had stored at 0xFF0 and
\* 0xFFF and that the program had overwritten since
C20_Witness ==
  /\ TickFetched
  /\ ~c8.panic
  /\ call.op = 65381
  /\ pre.i_reg = 4080
  /\ pre.v_reg[0] = 1
  /\ pre.v_reg[15] = 2
  /\ c8.v_reg[0] = 156
  /\ c8.v_reg[1] = 7
  /\ c8.v_reg[15] = 51
  /\ c8.i_reg = 4080

\* C16: in every state reached by ticks from a loaded program the font region
\* 0x000-0x04F holds the built-in glyph bytes, and no tick changes a byte
\* below 0x200.
C16_FontIntact ==
  /\ \A a \in 0..(FONTSET_SIZE - 1) : c8.ram[a] = FONTSET[a + 1]
  /\ call.name = "tick" =>
       \A a \in 0..(START_ADDR - 1) : c8.ram[a] = pre.ram[a]

\* the opcode matches a row of the opcode table
InTable(op) ==
  \/ op \in {0, 224, 238}
  \/ D1(op) \in {1, 2, 3, 4, 6, 7, 10, 11, 12, 13}
  \/ D1(op) \in {5, 9} /\ D4(op) = 0
  \/ D1(op) = 8 /\ D4(op) \in (0..7) \cup {14}
  \/ D1(op) = 14 /\ op % 256 \in {158, 161}
  \/ D1(op) = 15 /\ op % 256 \in {7, 10, 21, 24, 30, 41, 51, 85, 101}

\* the fatal conditions of the defined opcodes on the machine m: return with
\* an empty stack, call with a full one, an access at I + offset beyond 0xFFF,
\* a key index above 15
FatalIn(m, op) ==
  \/ op = 238 /\ m.sp = 0
  \/ D1(op) = 2 /\ m.sp >= STACK_SIZE
  \/ AccessLen(op) > 0 /\ m.i_reg + AccessLen(op) - 1 >= MEM_SIZE
  \/ D1(op) = 14 /\ m.v_reg[D2(op)] >= KEYPAD_SIZE

\* C17: a tick that fetches an opcode outside the opcode table stops the
\* machine, changing nothing but the PC the fetch advanced, and no tick is
\* made on a stopped machine; a tick that fetches an opcode of the table
\* executes it: it stops the machine only under that opcode's own fatal
\* condition.
C17_OpcodeTable ==
  /\ call.name = "tick" => ~pre.panic
  /\ (TickFetched /\ ~InTable(call.op)) =>
       c8 = [pre EXCEPT !.pc = pre.pc + 2, !.panic = TRUE]
  /\ (TickFetched /\ InTable(call.op)) =>
       (c8.panic <=> FatalIn(pre, call.op))

\* the opcode 5001 was fetched and stopped the machine
C17_Witness ==
  /\ TickFetched
  /\ call.op = 20481
  /\ ~InTable(call.op)
  /\ c8.panic
  /\ c8.pc = pre.pc + 2

\* C22: a tick on Fx0A while no key is pressed leaves the whole machine (PC,
\* V0-VF, I, memory, stack, stack pointer, display, DT, ST, keys) as it was
\* before the tick.
C22_StallFixedPoint ==
  (call.name = "tick" /\ IsFx0A(call.op) /\ Pressed(pre) = {}) => c8 = pre

\* two ticks in a row stalled on F10A with V1 = 3, a call open, a glyph on the
\* display and both timers running, and left everything as it was
C22_Witness ==
  /\ call.name = "tick"
  /\ call2.name = "tick"
  /\ call.op = 61706
  /\ call2.op = 61706
  /\ Pressed(pre) = {}
  /\ c8.v_reg[1] = 3
  /\ c8 = pre
  /\ pre = pre2
  /\ c8.pc = At(6)
  /\ c8.sp = 1
  /\ c8.dt = 2
  /\ c8.st = 3
  /\ c8.screen # new.screen

\* the largest element of a set of numbers
Highest(S) == CHOOSE k \in S : \A j \in S : j <= k

\* the calls matched by the first k returns of the log b: a return matches
\* the latest call made before it that no earlier return has matched
RECURSIVE Matches(_, _)
Matches(b, k) ==
  IF k = 0 THEN <<>>
  ELSE LET m == Matches(b, k - 1)
           open == { j \in 1..b.pops[k].calls :
                       \A i \in 1..Len(m) : m[i] # j }
       IN Append(m, Highest(open))

\* C21: a 2nnn executed at address a pushes a + 2 and sets PC = nnn; every
\* 00EE resumes at a + 2 for the call at a that it matches, with the stack
\* depth back at what that call found, so nested calls return to their call
\* sites in the reverse order of the calls.
C21_CallReturn ==
  /\ (Ticked /\ D1(call.op) = 2) =>
       /\ c8.stack[pre.sp] = pre.pc + 2
       /\ c8.sp = pre.sp + 1
       /\ c8.pc = NNN(call.op)
  /\ LET m == Matches(burst, Len(burst.pops))
     IN \A k \in 1..Len(burst.pops) :
          /\ burst.pops[k].pc = burst.pushes[m[k]].site + 2
          /\ burst.pops[k].depth = burst.pushes[m[k]].depth

\* sixteen calls, each from its own address, were nested and every one has
\* returned: the last return resumed after the first call at depth 0
C21_Witness ==
  /\ Ticked
  /\ call.op = 238
  /\ Len(burst.pushes) = STACK_SIZE
  /\ Len(burst.pops) = STACK_SIZE
  /\ burst.pops[1].calls = STACK_SIZE
  /\ burst.pops[1].depth = STACK_SIZE - 1
  /\ \A j, k \in 1..STACK_SIZE : j # k => burst.pushes[j].site # burst.pushes[k].site
  /\ burst.pushes[1].site = START_ADDR
  /\ c8.pc = START_ADDR + 2
  /\ c8.sp = 0
====
